---- MODULE Spec2Model ----
(***************************************************************************)
(* Model of scripts/validate_vault.py: the record loader (VaultLoader),    *)
(* the relationship validator (VaultValidator), the canvas checker         *)
(* (CanvasValidator) and the driver (main).                                *)
(*                                                                         *)
(* A Python str is a sequence of one-character strings, so that prefix     *)
(* tests, splitting on commas and stripping are computed, not assumed.     *)
(* A YAML / JSON value is a record [tag, v]:                               *)
(*   tag "null" (None), "str" (v: characters), "int" (v: the number),      *)
(*   "list" (v: sequence of values), "map" (v: sequence of <<key, value>>  *)
(*   pairs, keys being TLA+ strings).                                      *)
(***************************************************************************)
EXTENDS Integers, Sequences, FiniteSets, TLC

VARIABLES
    vault,       \* the sources the folder scan has yielded so far (their metadata)
    entities,    \* VaultLoader.entities: (key, Entity) pairs in insertion order
    duplicates,  \* VaultLoader.duplicates: (key, paths) pairs in insertion order
    pc,          \* position of the driver
    heap,        \* the list objects holding findings, by reference
    verrors,     \* VaultValidator.errors: reference into heap (0: not constructed)
    vret,        \* references returned by the calls of validate_all, in call order
    vsnap,       \* contents of each returned list at the moment it was returned
    vraised,     \* TRUE when the last call of validate_all raised
    canvas,      \* the canvas file: tag "absent", "unreadable", or a JSON value
    cerrors,     \* CanvasValidator.errors: reference into heap (0: not constructed)
    cret,        \* reference returned by CanvasValidator.validate (0: none)
    craised,     \* TRUE when CanvasValidator.validate raised
    exitCode,    \* the exit status of the run of main (-1: still running)
    pids,        \* parse_list_field: the ids given
    pstr,        \* parse_list_field of the ids joined by ", " (<<>>: not called, else <<result>>)
    plist,       \* parse_list_field of the native list of the ids (likewise)
    pvalue,      \* parse_list_field: the value given
    pout,        \* parse_list_field of that value (<<>>: not called, else <<result>>)
    lret         \* what each call of VaultLoader.load left: the collection and the duplicates map

vars == <<vault, entities, duplicates, pc, heap, verrors, vret, vsnap, vraised,
          canvas, cerrors, cret, craised, exitCode, pids, pstr, plist, pvalue, pout,
          lret>>

(***************************************************************************)
(* Bounds                                                                  *)
(***************************************************************************)
MaxFiles == 2      \* sources in the vault of the driver's run
MaxSources == 4    \* sources in the vault of the loader-only specification
MaxCalls == 2      \* calls of validate_all on one validator
MaxIds == 3        \* ids in the sequences given to parse_list_field
MaxLoads == 2      \* calls of load on one loader
MaxChars == 3      \* characters in a string given to parse_list_field

(***************************************************************************)
(* Strings                                                                 *)
(***************************************************************************)
VNull == [tag |-> "null", v |-> <<>>]
VStr(s) == [tag |-> "str", v |-> s]
VInt(n) == [tag |-> "int", v |-> n]
VList(xs) == [tag |-> "list", v |-> xs]
VMap(kvs) == [tag |-> "map", v |-> kvs]

\* str.startswith(prefix)
StartsWith(s, prefix) ==
    /\ Len(prefix) <= Len(s)
    /\ SubSeq(s, 1, Len(prefix)) = prefix

IsSpace(c) == c = " "

RECURSIVE LStrip(_)
LStrip(s) == IF s # <<>> /\ IsSpace(Head(s)) THEN LStrip(Tail(s)) ELSE s

RECURSIVE RStrip(_)
RStrip(s) ==
    IF s # <<>> /\ IsSpace(s[Len(s)]) THEN RStrip(SubSeq(s, 1, Len(s) - 1)) ELSE s

\* a slip: the pieces of the split are kept as they are
StripNothing(s) == s

\* str.strip()
Strip(s) == RStrip(LStrip(s))

\* str.split(','): the pieces between commas, empty pieces kept
RECURSIVE SplitFrom(_, _)
SplitFrom(s, cur) ==
    IF s = <<>> THEN <<cur>>
    ELSE IF Head(s) = "," THEN <<cur>> \o SplitFrom(Tail(s), <<>>)
    ELSE SplitFrom(Tail(s), Append(cur, Head(s)))

Split(s) == SplitFrom(s, <<>>)

\* ', '.join(parts)
RECURSIVE Join(_)
Join(parts) ==
    IF parts = <<>> THEN <<>>
    ELSE IF Len(parts) = 1 THEN parts[1]
    ELSE parts[1] \o <<",", " ">> \o Join(Tail(parts))

Contains(s, c) == \E i \in 1..Len(s) : s[i] = c

\* Python truthiness of a value
Truthy(x) ==
    CASE x.tag = "null" -> FALSE
      [] x.tag = "int" -> x.v # 0
      [] OTHER -> x.v # <<>>

\* Python `a or b`
Or(a, b) == IF Truthy(a) THEN a ELSE b

\* a value that can be a dict key or be looked up in a dict
Hashable(x) == x.tag \in {"null", "str", "int"}

Digit(n) == CASE n = 0 -> "0" [] n = 1 -> "1" [] n = 2 -> "2" [] n = 3 -> "3"
              [] n = 4 -> "4" [] n = 5 -> "5" [] n = 6 -> "6" [] n = 7 -> "7"
              [] n = 8 -> "8" [] OTHER -> "9"

\* str(v) for the values a metadata list holds here (strings, one-digit numbers)
ToStr(x) ==
    CASE x.tag = "str" -> x.v
      [] x.tag = "int" -> <<Digit(x.v)>>
      [] x.tag = "null" -> <<"N", "o", "n", "e">>
      [] OTHER -> <<"[", "]">>

(***************************************************************************)
(* Configuration                                                           *)
(***************************************************************************)
ENTITY_PREFIXES ==
    << <<<<"M", "-">>, "milestone">>,
       <<<<"S", "-">>, "story">>,
       <<<<"T", "-">>, "task">>,
       <<<<"D", "E", "C", "-">>, "decision">>,
       <<<<"D", "O", "C", "-">>, "document">> >>

DECISION_ENABLES_VALID_TYPES == {"document", "story", "task"}
DOCUMENT_IMPLEMENTED_BY_VALID_TYPES == {"story", "task"}
IMPLEMENTS_VALID_TYPES == {"document"}
DEPENDS_ON_VALID_TYPES ==
    [t \in {"milestone", "story", "task", "decision", "document"} |->
        CASE t = "milestone" -> {"milestone", "decision"}
          [] t = "story" -> {"story", "decision", "document"}
          [] t = "task" -> {"task", "decision"}
          [] t = "decision" -> {"decision"}
          [] OTHER -> {"document", "decision"}]

\* get_entity_type_from_id: the type of the first prefix that matches, or "None"
RECURSIVE TypeFrom(_, _)
TypeFrom(entity_id, k) ==
    IF k > Len(ENTITY_PREFIXES) THEN "None"
    ELSE IF StartsWith(entity_id, ENTITY_PREFIXES[k][1]) THEN ENTITY_PREFIXES[k][2]
    ELSE TypeFrom(entity_id, k + 1)

get_entity_type_from_id(entity_id) == TypeFrom(entity_id, 1)

(***************************************************************************)
(* parse_list_field                                                        *)
(***************************************************************************)
RECURSIVE KeepTruthyAsStr(_)
KeepTruthyAsStr(xs) ==
    IF xs = <<>> THEN <<>>
    ELSE IF Truthy(Head(xs)) THEN <<ToStr(Head(xs))>> \o KeepTruthyAsStr(Tail(xs))
    ELSE KeepTruthyAsStr(Tail(xs))

RECURSIVE StripKeepNonEmpty(_)
StripKeepNonEmpty(parts) ==
    IF parts = <<>> THEN <<>>
    ELSE IF Strip(Head(parts)) # <<>>
         THEN <<Strip(Head(parts))>> \o StripKeepNonEmpty(Tail(parts))
         ELSE StripKeepNonEmpty(Tail(parts))

parse_list_field(value) ==
    CASE value.tag = "null" -> <<>>
      [] value.tag = "list" -> KeepTruthyAsStr(value.v)
      [] value.tag = "str" ->
            IF Contains(value.v, ",") THEN StripKeepNonEmpty(Split(value.v))
            ELSE IF value.v # <<>> THEN <<value.v>> ELSE <<>>
      [] OTHER -> <<>>

(***************************************************************************)
(* Record loader                                                           *)
(*                                                                         *)
(* A source is what parse_frontmatter returns for one file: hasMeta is     *)
(* FALSE when it returns {} (no block, unclosed block, YAML error); else   *)
(* each recognised key holds its value, VNull when the key is missing      *)
(* (dict.get's default).  title, status and raw_frontmatter are read by no *)
(* check and are left out of Entity.  file_path is the position of the     *)
(* source in the scan (folders in the order of load, each in glob order).  *)
(***************************************************************************)
ListFields == <<"depends_on", "blocked_by", "implements", "enables", "implemented_by">>

\* frontmatter.get('id', ''): a missing id is the empty string
IdOf(src) == IF src.id.tag = "null" THEN VStr(<<>>) ELSE src.id

\* load_entity_from_file: <<the Entity>>, or <<>> for None (the source is skipped:
\* no metadata, no id, an id that is no string (startswith raises, and the
\* exception is caught), or an id with no known prefix)
load_entity_from_file(src, file_path) ==
    IF ~src.hasMeta THEN <<>>
    ELSE IF ~Truthy(IdOf(src)) THEN <<>>
    ELSE IF IdOf(src).tag # "str" THEN <<>>
    ELSE IF get_entity_type_from_id(IdOf(src).v) = "None" THEN <<>>
    ELSE << [id |-> IdOf(src).v,
          type |-> get_entity_type_from_id(IdOf(src).v),
          file_path |-> file_path,
          parent |-> Or(src.parent, src.milestone),
          depends_on |-> parse_list_field(src.depends_on),
          blocked_by |-> parse_list_field(src.blocked_by),
          implements |-> parse_list_field(src.implements),
          enables |-> parse_list_field(src.enables),
          implemented_by |-> parse_list_field(src.implemented_by),
          supersedes |-> src.supersedes] >>

\* `key in d` / d.get(key) for a dict kept as a sequence of records with an id
HasKey(d, key) == \E i \in 1..Len(d) : d[i].id = key
Get(d, key) == d[CHOOSE i \in 1..Len(d) : d[i].id = key]
IndexOf(d, key) == CHOOSE i \in 1..Len(d) : d[i].id = key

\* a slip: a later discovery is recorded without the winner's path put first
LoadIntoWithoutWinner(ents, dups, src, file_path) ==
    LET loaded == load_entity_from_file(src, file_path)
        entity == loaded[1]
    IN
    IF loaded = <<>> THEN [entities |-> ents, duplicates |-> dups]
    ELSE IF HasKey(ents, entity.id)
    THEN LET d1 == IF HasKey(dups, entity.id) THEN dups
                   ELSE Append(dups, [id |-> entity.id, paths |-> <<>>])
             k == IndexOf(d1, entity.id)
         IN [entities |-> ents,
             duplicates |-> [d1 EXCEPT ![k].paths = Append(@, file_path)]]
    ELSE [entities |-> Append(ents, entity), duplicates |-> dups]

\* the body of the loop of _load_folder for one source, on the loader's two maps
LoadInto(ents, dups, src, file_path) ==
    LET loaded == load_entity_from_file(src, file_path)
        entity == loaded[1]
    IN
    IF loaded = <<>> THEN [entities |-> ents, duplicates |-> dups]
    ELSE IF HasKey(ents, entity.id)
    THEN LET d1 == IF HasKey(dups, entity.id) THEN dups
                   ELSE Append(dups, [id |-> entity.id, paths |-> <<>>])
             k == IndexOf(d1, entity.id)
             d2 == [d1 EXCEPT ![k].paths = Append(@, file_path)]
             d3 == IF Len(d2[k].paths) = 1
                   THEN [d2 EXCEPT ![k].paths = <<Get(ents, entity.id).file_path>> \o @]
                   ELSE d2
         IN [entities |-> ents, duplicates |-> d3]
    ELSE [entities |-> Append(ents, entity), duplicates |-> dups]

(***************************************************************************)
(* Validator                                                               *)
(*                                                                         *)
(* A finding is a ValidationError.  Its message is kept as the pieces of   *)
(* the f-string; a referenced id stands in it as a value, and the joined   *)
(* set of valid types as that set.  A check returns the findings it        *)
(* appends, in order, and whether it raised.                                *)
(***************************************************************************)
Finding(entity, fld, msg, sev) ==
    [entity_id |-> entity.id, field |-> fld, message |-> msg, severity |-> sev,
     file_path |-> entity.file_path]

\* `x in self.entities` for a hashable value x: only a string can equal a key
InEntities(E, x) == x.tag = "str" /\ HasKey(E, x.v)

\* a slip: a missing id reported once per field, however often the field holds it
RECURSIVE ExistLoopDistinct(_, _, _, _, _, _)
ExistLoopDistinct(E, entity, fld, ids, noun, sev) ==
    IF ids = <<>> THEN <<>>
    ELSE (IF ~HasKey(E, Head(ids)) /\ \A i \in 1..Len(Tail(ids)) : Tail(ids)[i] # Head(ids)
          THEN <<Finding(entity, fld, <<noun, VStr(Head(ids)), "' not found">>, sev)>>
          ELSE <<>>)
         \o ExistLoopDistinct(E, entity, fld, Tail(ids), noun, sev)

\* one `for ..._id in entity.<field>` loop of _validate_references_exist
RECURSIVE ExistLoop(_, _, _, _, _, _)
ExistLoop(E, entity, fld, ids, noun, sev) ==
    IF ids = <<>> THEN <<>>
    ELSE (IF ~HasKey(E, Head(ids))
          THEN <<Finding(entity, fld, <<noun, VStr(Head(ids)), "' not found">>, sev)>>
          ELSE <<>>)
         \o ExistLoop(E, entity, fld, Tail(ids), noun, sev)

\* the `if entity.<field> and entity.<field> not in self.entities` of parent and supersedes
ScalarExist(E, entity, fld, x, noun) ==
    IF ~Truthy(x) THEN [errs |-> <<>>, raised |-> FALSE]
    ELSE IF ~Hashable(x) THEN [errs |-> <<>>, raised |-> TRUE]
    ELSE IF ~InEntities(E, x)
         THEN [errs |-> <<Finding(entity, fld, <<noun, x, "' not found">>, "error")>>,
               raised |-> FALSE]
         ELSE [errs |-> <<>>, raised |-> FALSE]

\* a slip: the blocked_by loop copied from its neighbours with their severity
BlockedBySeverityAsError == "error"

BlockedBySeverity == "warning"

validate_references_exist(E, entity) ==
    LET lists ==
            ExistLoop(E, entity, "depends_on", entity.depends_on, "Referenced entity '", "error")
         \o ExistLoop(E, entity, "blocked_by", entity.blocked_by, "Referenced entity '", BlockedBySeverity)
         \o ExistLoop(E, entity, "implements", entity.implements, "Referenced document '", "error")
         \o ExistLoop(E, entity, "enables", entity.enables, "Referenced entity '", "error")
         \o ExistLoop(E, entity, "implemented_by", entity.implemented_by, "Referenced entity '", "error")
        par == ScalarExist(E, entity, "parent", entity.parent, "Parent entity '")
        sup == ScalarExist(E, entity, "supersedes", entity.supersedes, "Superseded entity '")
    IN IF par.raised THEN [errs |-> lists, raised |-> TRUE]
       ELSE [errs |-> lists \o par.errs \o sup.errs, raised |-> sup.raised]

\* one `for ..._id in entity.<field>` loop of a type check: msg(target) is the message
RECURSIVE TypeLoop(_, _, _, _, _, _)
TypeLoop(E, entity, fld, ids, valid, head) ==
    IF ids = <<>> THEN <<>>
    ELSE (IF HasKey(E, Head(ids)) /\ Get(E, Head(ids)).type \notin valid
          THEN <<Finding(entity, fld,
                         head \o <<Get(E, Head(ids)).type, " '", VStr(Head(ids)),
                                   "'. Valid types: ", valid>>,
                         "error")>>
          ELSE <<>>)
         \o TypeLoop(E, entity, fld, Tail(ids), valid, head)

validate_decision_enables(E, entity) ==
    IF entity.type # "decision" THEN <<>>
    ELSE TypeLoop(E, entity, "enables", entity.enables, DECISION_ENABLES_VALID_TYPES,
                  <<"Decision cannot enable ">>)

validate_document_implemented_by(E, entity) ==
    IF entity.type # "document" THEN <<>>
    ELSE TypeLoop(E, entity, "implemented_by", entity.implemented_by,
                  DOCUMENT_IMPLEMENTED_BY_VALID_TYPES,
                  <<"Document cannot be implemented by ">>)

\* a slip: the rule as the module's docstring words it, for stories and tasks only
validate_implements_story_task(E, entity) ==
    IF entity.type \notin {"story", "task"} THEN <<>>
    ELSE TypeLoop(E, entity, "implements", entity.implements, IMPLEMENTS_VALID_TYPES,
                  <<entity.type, " cannot implement ">>)

validate_implements(E, entity) ==
    IF entity.type \notin {"story", "task", "milestone"} THEN <<>>
    ELSE TypeLoop(E, entity, "implements", entity.implements, IMPLEMENTS_VALID_TYPES,
                  <<entity.type, " cannot implement ">>)

\* a slip: one table for stories and tasks
validate_depends_on_task_as_story(E, entity) ==
    TypeLoop(E, entity, "depends_on", entity.depends_on,
             DEPENDS_ON_VALID_TYPES[IF entity.type = "task" THEN "story" ELSE entity.type],
             <<entity.type, " cannot depend on ">>)

validate_depends_on(E, entity) ==
    TypeLoop(E, entity, "depends_on", entity.depends_on,
             DEPENDS_ON_VALID_TYPES[entity.type], <<entity.type, " cannot depend on ">>)

\* a slip: tasks expected under a milestone, like stories
ExpectedParentTypeAllMilestone(type) ==
    CASE type = "story" -> "milestone"
      [] type = "task" -> "milestone"
      [] OTHER -> "None"

\* expected_parent_types.get(entity.type): "None" when the type has no entry
ExpectedParentType(type) ==
    CASE type = "story" -> "milestone"
      [] type = "task" -> "story"
      [] OTHER -> "None"

validate_parent_type(E, entity) ==
    IF ~Truthy(entity.parent) THEN [errs |-> <<>>, raised |-> FALSE]
    ELSE IF ~Hashable(entity.parent) THEN [errs |-> <<>>, raised |-> TRUE]
    ELSE IF ~InEntities(E, entity.parent) THEN [errs |-> <<>>, raised |-> FALSE]
    ELSE LET parent == Get(E, entity.parent.v)
             expected == ExpectedParentType(entity.type)
         IN IF expected # "None" /\ parent.type # expected
            THEN [errs |-> <<Finding(entity, "parent",
                                     <<"Invalid parent type: expected '", expected,
                                       "', got '", parent.type, "'">>,
                                     "error")>>,
                  raised |-> FALSE]
            ELSE [errs |-> <<>>, raised |-> FALSE]

\* a slip: the checks of a record stop after the first one that reports
validate_entity_until_first_report(E, entity) ==
    LET refs == validate_references_exist(E, entity)
        typed == validate_decision_enables(E, entity)
              \o validate_document_implemented_by(E, entity)
              \o validate_implements(E, entity)
              \o validate_depends_on(E, entity)
        par == validate_parent_type(E, entity)
    IN IF refs.raised \/ refs.errs # <<>> THEN refs
       ELSE IF typed # <<>> THEN [errs |-> typed, raised |-> FALSE]
       ELSE [errs |-> par.errs, raised |-> par.raised]

\* a slip: the type checks called in the order of the existence loops
validate_entity_types_in_field_order(E, entity) ==
    LET refs == validate_references_exist(E, entity)
        typed == validate_depends_on(E, entity)
              \o validate_implements(E, entity)
              \o validate_decision_enables(E, entity)
              \o validate_document_implemented_by(E, entity)
        par == validate_parent_type(E, entity)
    IN IF refs.raised THEN refs
       ELSE [errs |-> refs.errs \o typed \o par.errs, raised |-> par.raised]

\* _validate_entity: the six checks in order; an exception ends it
validate_entity(E, entity) ==
    LET refs == validate_references_exist(E, entity)
        typed == validate_decision_enables(E, entity)
              \o validate_document_implemented_by(E, entity)
              \o validate_implements(E, entity)
              \o validate_depends_on(E, entity)
        par == validate_parent_type(E, entity)
    IN IF refs.raised THEN refs
       ELSE [errs |-> refs.errs \o typed \o par.errs, raised |-> par.raised]

\* the loop of validate_all from entity k on: what it appends, and whether it raised
RECURSIVE ValidateFrom(_, _)
ValidateFrom(E, k) ==
    IF k > Len(E) THEN [errs |-> <<>>, raised |-> FALSE]
    ELSE LET one == validate_entity(E, E[k]) IN
         IF one.raised THEN one
         ELSE LET rest == ValidateFrom(E, k + 1)
              IN [errs |-> one.errs \o rest.errs, raised |-> rest.raised]

(***************************************************************************)
(* Canvas checker                                                          *)
(***************************************************************************)
IsMap(x) == x.tag = "map"
MapHas(m, key) == \E i \in 1..Len(m.v) : m.v[i][1] = key
\* dict.get(key, default)
MapGet(m, key, default) ==
    IF MapHas(m, key) THEN m.v[CHOOSE i \in 1..Len(m.v) : m.v[i][1] = key][2]
    ELSE default

\* what a `for x in value` loop iterates: a list's items, a str's characters, a
\* dict's keys; <<>> stands for a value that cannot be iterated when Iterable is FALSE
Iterable(x) == x.tag \in {"list", "str", "map"}
Items(x) ==
    CASE x.tag = "list" -> x.v
      [] x.tag = "str" -> [i \in 1..Len(x.v) |-> VStr(<<x.v[i]>>)]
      [] x.tag = "map" -> [i \in 1..Len(x.v) |-> VStr(<<x.v[i][1]>>)]
      [] OTHER -> <<>>

LastIndexOf(s, c) ==
    IF Contains(s, c) THEN CHOOSE i \in 1..Len(s) :
                               s[i] = c /\ \A j \in (i + 1)..Len(s) : s[j] # c
    ELSE 0

\* Path(file_path).stem: the last component without its last suffix
Stem(file_path) ==
    LET name == SubSeq(file_path, LastIndexOf(file_path, "/") + 1, Len(file_path))
        dot == LastIndexOf(name, ".")
    IN IF dot > 1 /\ dot < Len(name) THEN SubSeq(name, 1, dot - 1) ELSE name

\* _extract_entity_id_from_path: <<the id>>, or <<>> for None
extract_entity_id_from_path(file_path) ==
    IF \E k \in 1..Len(ENTITY_PREFIXES) : StartsWith(Stem(file_path), ENTITY_PREFIXES[k][1])
    THEN <<Stem(file_path)>>
    ELSE <<>>

CanvasId == <<"c", "a", "n", "v", "a", "s">>
CanvasPath == 0

CanvasFinding(entity_id, fld, msg, sev) ==
    [entity_id |-> entity_id, field |-> fld, message |-> msg, severity |-> sev,
     file_path |-> CanvasPath]

\* the body of `for node in nodes` for one node
CanvasNode(E, node) ==
    IF ~IsMap(node) THEN [errs |-> <<>>, raised |-> TRUE]
    ELSE IF MapGet(node, "type", VNull) # VStr(<<"f", "i", "l", "e">>)
         THEN [errs |-> <<>>, raised |-> FALSE]
    ELSE LET file_path == MapGet(node, "file", VStr(<<>>)) IN
         IF file_path.tag # "str" THEN [errs |-> <<>>, raised |-> TRUE]
         ELSE LET found == extract_entity_id_from_path(file_path.v) IN
              IF found # <<>> /\ ~HasKey(E, found[1])
              THEN [errs |-> <<CanvasFinding(found[1], "canvas_node",
                                   <<"Canvas references non-existent entity '",
                                     VStr(found[1]), "'">>, "warning")>>,
                    raised |-> FALSE]
              ELSE [errs |-> <<>>, raised |-> FALSE]

RECURSIVE CanvasNodes(_, _)
CanvasNodes(E, nodes) ==
    IF nodes = <<>> THEN [errs |-> <<>>, raised |-> FALSE]
    ELSE LET one == CanvasNode(E, Head(nodes)) IN
         IF one.raised THEN one
         ELSE LET rest == CanvasNodes(E, Tail(nodes))
              IN [errs |-> one.errs \o rest.errs, raised |-> rest.raised]

\* the body of `for edge in edges`: two .get calls, nothing appended
CanvasEdgesRaise(edges) == \E i \in 1..Len(edges) : ~IsMap(edges[i])

\* a slip: the load failure reported like a dangling canvas node
CanvasLoadSeverityAsWarning == "warning"

CanvasLoadSeverity == "error"

\* the except branch of CanvasValidator.validate
CanvasLoadFailure ==
    [errs |-> <<CanvasFinding(CanvasId, "file", <<"Failed to load canvas: ">>,
                              CanvasLoadSeverity)>>,
     raised |-> FALSE]

\* CanvasValidator.validate after `self.errors = []`: what it appends, whether it raises
canvas_validate(E, doc) ==
    IF doc.tag = "unreadable" THEN CanvasLoadFailure
    ELSE IF ~IsMap(doc) THEN [errs |-> <<>>, raised |-> TRUE]
    ELSE LET nodes == MapGet(doc, "nodes", VList(<<>>))
             edges == MapGet(doc, "edges", VList(<<>>))
         IN IF ~Iterable(nodes) THEN [errs |-> <<>>, raised |-> TRUE]
            ELSE LET n == CanvasNodes(E, Items(nodes)) IN
                 IF n.raised THEN n
                 ELSE IF ~Iterable(edges) \/ CanvasEdgesRaise(Items(edges))
                      THEN [errs |-> n.errs, raised |-> TRUE]
                      ELSE n

(***************************************************************************)
(* The sources a scan may yield                                            *)
(***************************************************************************)
MId == <<"M", "-", "1">>
SId == <<"S", "-", "1">>
TId == <<"T", "-", "1">>
DecId == <<"D", "E", "C", "-", "1">>
DocId == <<"D", "O", "C", "-", "1">>
XId == <<"X", "-", "1">>          \* no known prefix
ValidIds == {MId, SId, TId, DecId, DocId}

NoMeta ==
    [hasMeta |-> FALSE, id |-> VNull, parent |-> VNull, milestone |-> VNull,
     depends_on |-> VNull, blocked_by |-> VNull, implements |-> VNull,
     enables |-> VNull, implemented_by |-> VNull, supersedes |-> VNull]

\* a source whose metadata holds an id and no relationship key
Plain(idv) == [NoMeta EXCEPT !.hasMeta = TRUE, !.id = idv]

\* sources that are skipped: no metadata, no id, a number as id, an unknown prefix
SkippedSources == {NoMeta, Plain(VNull), Plain(VInt(7)), Plain(VStr(XId))}

PlainSources == {Plain(VStr(i)) : i \in ValidIds}

\* values of a list key: lists of one id, of one id twice and of two ids of
\* different types, a single id, a comma-separated string, a list with falsy
\* entries, a number
IdOrder == <<MId, SId, TId, DecId, DocId>>
IdLists ==
    {<<VStr(a)>> : a \in ValidIds}
    \cup {<<VStr(a), VStr(a)>> : a \in ValidIds}
    \cup {<<VStr(IdOrder[i]), VStr(IdOrder[(i % Len(IdOrder)) + 1])>> : i \in 1..Len(IdOrder)}
ListValues ==
    {VList(l) : l \in IdLists}
    \cup {VStr(SId), VStr(Join(<<TId, DocId>>)), VInt(7),
          VList(<<VNull, VStr(<<>>), VStr(MId)>>)}

\* values of parent, milestone and supersedes
UnhashableValues == {VList(<<VStr(MId)>>), VMap(<< <<"id", VStr(MId)>> >>)}
ScalarValues ==
    {VStr(a) : a \in ValidIds} \cup {VStr(<<>>), VInt(7), VList(<<>>)} \cup UnhashableValues

\* (parent, milestone) as a source may hold them
ParentPairs ==
    {<<p, VNull>> : p \in ScalarValues}
    \cup {<<VNull, VStr(a)>> : a \in ValidIds}
    \cup {<<VStr(<<>>), VStr(MId)>>, <<VStr(SId), VStr(MId)>>, <<VInt(0), VStr(SId)>>}

WithList(src, fld, val) ==
    CASE fld = "depends_on" -> [src EXCEPT !.depends_on = val]
      [] fld = "blocked_by" -> [src EXCEPT !.blocked_by = val]
      [] fld = "implements" -> [src EXCEPT !.implements = val]
      [] fld = "enables" -> [src EXCEPT !.enables = val]
      [] OTHER -> [src EXCEPT !.implemented_by = val]

\* sources whose metadata sets one relationship (one list key, parent with or
\* without the legacy key, or supersedes)
LinkedSources ==
    {WithList(src, ListFields[k], val) :
        src \in PlainSources, k \in 1..Len(ListFields), val \in ListValues}
    \cup {[src EXCEPT !.parent = pm[1], !.milestone = pm[2]] :
            src \in PlainSources, pm \in ParentPairs}
    \cup {[src EXCEPT !.supersedes = val] : src \in PlainSources, val \in ScalarValues}

IsLinked(src) ==
    \/ \E k \in 1..Len(ListFields) :
          WithList(src, ListFields[k], VNull) # src
    \/ src.parent # VNull \/ src.milestone # VNull \/ src.supersedes # VNull
NoneLinked(v) == \A i \in 1..Len(v) : ~IsLinked(v[i])

\* the sources of the loader-only specification: two ids to repeat, and the
\* sources that are skipped
IdSources == {Plain(VStr(MId)), Plain(VStr(SId))} \cup SkippedSources

(***************************************************************************)
(* State after construction, and the steps                                 *)
(***************************************************************************)
NoCanvas == [tag |-> "unread", v |-> <<>>]

Init ==
    /\ vault = <<>>
    /\ entities = <<>>
    /\ duplicates = <<>>
    /\ pc = "load"
    /\ heap = <<>>
    /\ verrors = 0
    /\ vret = <<>>
    /\ vsnap = <<>>
    /\ vraised = FALSE
    /\ canvas = NoCanvas
    /\ cerrors = 0
    /\ cret = 0
    /\ craised = FALSE
    /\ exitCode = -1
    /\ pids = <<>>
    /\ pstr = <<>>
    /\ plist = <<>>
    /\ pvalue = VNull
    /\ pout = <<>>
    /\ lret = <<>>

parseVars == <<pids, pstr, plist, pvalue, pout>>
validatorVars == <<heap, verrors, vret, vsnap, vraised>>
canvasVars == <<canvas, cerrors, cret, craised>>

\* one iteration of the loop of _load_folder: the scan yields the next source
LoadFile(src) ==
    /\ pc = "load"
    /\ LET r == LoadInto(entities, duplicates, src, Len(vault) + 1) IN
        /\ entities' = r.entities
        /\ duplicates' = r.duplicates
    /\ vault' = Append(vault, src)
    /\ UNCHANGED <<pc, validatorVars, canvasVars, exitCode, parseVars, lret>>

\* VaultLoader.load returns self.entities: the scan is over
LoadReturn ==
    /\ pc = "load"
    /\ pc' = "loaded"
    /\ lret' = Append(lret, [entities |-> entities, duplicates |-> duplicates])
    /\ UNCHANGED <<vault, entities, duplicates, validatorVars, canvasVars, exitCode, parseVars>>

\* a slip: the list is not replaced, findings pile up in the one self.errors
KeepErrors(h, ref) == [heap |-> h, ref |-> ref]

\* `self.errors = []`: a new list object, and the reference to it
ResetErrors(h, ref) == [heap |-> Append(h, <<>>), ref |-> Len(h) + 1]

\* VaultValidator.validate_all on heap h with self.errors = ref and self.entities = E
validate_all(h, ref, E) ==
    LET fresh == ResetErrors(h, ref)
        run == ValidateFrom(E, 1)
    IN [heap |-> [fresh.heap EXCEPT ![fresh.ref] = @ \o run.errs],
        ref |-> fresh.ref,
        raised |-> run.raised]

\* CanvasValidator.validate on heap h with self.errors = ref
validate(h, ref, E, doc) ==
    LET fresh == ResetErrors(h, ref)
        run == canvas_validate(E, doc)
    IN [heap |-> [fresh.heap EXCEPT ![fresh.ref] = @ \o run.errs],
        ref |-> fresh.ref,
        raised |-> run.raised]

\* VaultValidator(entities)
NewValidator ==
    /\ pc = "loaded"
    /\ heap' = Append(heap, <<>>)
    /\ verrors' = Len(heap) + 1
    /\ pc' = "ready"
    /\ UNCHANGED <<vault, entities, duplicates, lret, vret, vsnap, vraised, canvasVars,
                   exitCode, parseVars>>

\* a caller calls validator.validate_all(); a call that raises returns nothing (0)
CallValidateAll ==
    /\ pc = "ready"
    /\ Len(vret) < MaxCalls
    /\ LET r == validate_all(heap, verrors, entities) IN
        /\ heap' = r.heap
        /\ verrors' = r.ref
        /\ vraised' = r.raised
        /\ vret' = Append(vret, IF r.raised THEN 0 ELSE r.ref)
        /\ vsnap' = Append(vsnap, IF r.raised THEN <<>> ELSE r.heap[r.ref])
    /\ UNCHANGED <<vault, entities, duplicates, lret, pc, canvasVars, exitCode, parseVars>>

(***************************************************************************)
(* main                                                                    *)
(***************************************************************************)
UncaughtExit == 1      \* the interpreter's exit status for an uncaught exception

\* main, lines 526-527: VaultValidator(entities), then errors = validate_all()
MainValidate ==
    /\ pc = "loaded"
    /\ LET r == validate_all(Append(heap, <<>>), Len(heap) + 1, entities) IN
        /\ heap' = r.heap
        /\ verrors' = r.ref
        /\ vraised' = r.raised
        /\ vret' = Append(vret, IF r.raised THEN 0 ELSE r.ref)
        /\ vsnap' = Append(vsnap, IF r.raised THEN <<>> ELSE r.heap[r.ref])
        /\ pc' = IF r.raised THEN "crashed" ELSE "validated"
        /\ exitCode' = IF r.raised THEN UncaughtExit ELSE exitCode
    /\ UNCHANGED <<vault, entities, duplicates, lret, canvasVars, parseVars>>

\* main, lines 531-538: the canvas file is looked for and, when there, validated
MainCanvas(doc) ==
    /\ pc = "validated"
    /\ canvas' = doc
    /\ IF doc.tag = "absent"
       THEN /\ pc' = "summary"
            /\ UNCHANGED <<heap, cerrors, cret, craised, exitCode>>
       ELSE LET r == validate(Append(heap, <<>>), Len(heap) + 1, entities, doc) IN
            /\ heap' = r.heap
            /\ cerrors' = r.ref
            /\ craised' = r.raised
            /\ cret' = IF r.raised THEN 0 ELSE r.ref
            /\ pc' = IF r.raised THEN "crashed" ELSE "summary"
            /\ exitCode' = IF r.raised THEN UncaughtExit ELSE exitCode
    /\ UNCHANGED <<vault, entities, duplicates, lret, verrors, vret, vsnap, vraised, parseVars>>

RECURSIVE CountSeverity(_, _)
CountSeverity(errs, sev) ==
    IF errs = <<>> THEN 0
    ELSE (IF Head(errs).severity = sev THEN 1 ELSE 0) + CountSeverity(Tail(errs), sev)

\* the findings main counts in its summary: `errors`, the list validate_all returned
SummaryFindings(h) == h[vret[1]]

\* main, lines 541-560: the summary and the return value
MainSummary ==
    /\ pc = "summary"
    /\ LET total_errors == CountSeverity(SummaryFindings(heap), "error") IN
        exitCode' = IF total_errors > 0 THEN 1 ELSE 0
    /\ pc' = "done"
    /\ UNCHANGED <<vault, entities, duplicates, lret, validatorVars, canvasVars, parseVars>>

FileNode(path) == VMap(<< <<"type", VStr(<<"f", "i", "l", "e">>)>>, <<"file", VStr(path)>> >>)
TextNode == VMap(<< <<"type", VStr(<<"t", "e", "x", "t">>)>> >>)
Edge == VMap(<< <<"fromNode", VStr(<<"a">>)>>, <<"toNode", VStr(<<"b">>)>> >>)
PathTo(entity_id) == <<"m", "/">> \o entity_id \o <<".", "m", "d">>

\* the canvas file as main may find it
CanvasDocs ==
    {[tag |-> "absent", v |-> <<>>],
     [tag |-> "unreadable", v |-> <<>>],
     VList(<<>>),
     VMap(<<>>),
     VMap(<< <<"nodes", VList(<<FileNode(PathTo(MId)), TextNode>>)>>,
             <<"edges", VList(<<Edge>>)>> >>),
     VMap(<< <<"nodes", VList(<<FileNode(PathTo(TId)), FileNode(<<"n", ".", "m", "d">>)>>)>> >>),
     VMap(<< <<"nodes", VNull>> >>),
     VMap(<< <<"nodes", VList(<<VStr(<<"x">>)>>)>> >>),
     VMap(<< <<"edges", VList(<<VInt(5)>>)>> >>)}

\* the sources of the driver's run
DriverSources ==
    {NoMeta, Plain(VStr(MId)), Plain(VStr(SId)), Plain(VStr(TId)),
     [Plain(VStr(SId)) EXCEPT !.parent = VStr(MId)],
     [Plain(VStr(SId)) EXCEPT !.parent = VStr(TId)],
     [Plain(VStr(TId)) EXCEPT !.blocked_by = VList(<<VStr(DocId)>>)],
     [Plain(VStr(TId)) EXCEPT !.depends_on = VStr(Join(<<SId, DecId>>))],
     [Plain(VStr(MId)) EXCEPT !.parent = VList(<<VStr(MId)>>)],
     [Plain(VStr(DecId)) EXCEPT !.enables = VList(<<VStr(MId)>>),
                                !.supersedes = VMap(<< <<"id", VStr(MId)>> >>)]}

MainLoad ==
    /\ pc = "load"
    /\ Len(vault) < MaxFiles
    /\ \E src \in DriverSources : LoadFile(src)
MainReadCanvas ==
    /\ pc = "validated"
    /\ \E doc \in CanvasDocs : MainCanvas(doc)

Next == MainLoad \/ LoadReturn \/ MainValidate \/ MainReadCanvas \/ MainSummary

\* a run of main
Spec == Init /\ [][Next]_vars

(***************************************************************************)
(* The loader alone, over sources that repeat ids                          *)
(***************************************************************************)
ScanSource ==
    /\ pc = "load"
    /\ Len(vault) < MaxSources
    /\ \E src \in IdSources : LoadFile(src)

NextLoad == ScanSource \/ LoadReturn

SpecLoad == Init /\ [][NextLoad]_vars

(***************************************************************************)
(* The loader called again on the vault it has scanned                     *)
(***************************************************************************)
\* the loop of _load_folder over the first n sources of the vault, begun with the
\* collection and the duplicates map the loader holds
RECURSIVE LoadAll(_, _, _)
LoadAll(ents, dups, n) ==
    IF n = 0 THEN [entities |-> ents, duplicates |-> dups]
    ELSE LET before == LoadAll(ents, dups, n - 1)
         IN LoadInto(before.entities, before.duplicates, vault[n], n)

\* loader.load() once more: the same sources in the same order, on the loader's
\* own self.entities and self.duplicates
LoadAgain ==
    /\ pc = "loaded"
    /\ Len(lret) < MaxLoads
    /\ LET r == LoadAll(entities, duplicates, Len(vault)) IN
        /\ entities' = r.entities
        /\ duplicates' = r.duplicates
        /\ lret' = Append(lret, r)
    /\ UNCHANGED <<vault, pc, validatorVars, canvasVars, exitCode, parseVars>>

NextReload == ScanSource \/ LoadReturn \/ LoadAgain

SpecReload == Init /\ [][NextReload]_vars

(***************************************************************************)
(* Loader and validator: vaults in which at most one source sets a         *)
(* relationship (any one key, any source type, every target type), the     *)
(* others being records to refer to.  Sources that are skipped are scanned *)
(* in Spec and SpecLoad.                                                   *)
(***************************************************************************)
ScanPlain ==
    /\ pc = "load"
    /\ Len(vault) < MaxFiles
    /\ \E src \in PlainSources : LoadFile(src)
ScanLinked ==
    /\ pc = "load"
    /\ Len(vault) < MaxFiles
    /\ NoneLinked(vault)
    /\ \E src \in LinkedSources : LoadFile(src)

NextRules == ScanPlain \/ ScanLinked \/ LoadReturn \/ NewValidator \/ CallValidateAll

SpecRules == Init /\ [][NextRules]_vars

(***************************************************************************)
(* Loader and validator over records that set every relationship at once:  *)
(* a story, a decision or a document whose five list keys hold the same    *)
(* three ids, one of them twice, and whose parent and supersedes hold one  *)
(* id; a milestone and a task to refer to.                                 *)
(***************************************************************************)
RichLists ==
    {VList(<<VStr(MId), VStr(TId), VStr(MId)>>),
     VList(<<VStr(SId), VStr(DecId), VStr(SId)>>)}

Rich(a, l, p) ==
    [Plain(VStr(a)) EXCEPT !.depends_on = l, !.blocked_by = l, !.implements = l,
                           !.enables = l, !.implemented_by = l,
                           !.parent = p, !.supersedes = p]

RichSources ==
    {Rich(a, l, p) : a \in {SId, DecId, DocId}, l \in RichLists,
                     p \in {VStr(MId), VStr(DecId)}}
    \cup {Plain(VStr(MId)), Plain(VStr(TId))}

ScanRich ==
    /\ pc = "load"
    /\ Len(vault) < MaxFiles
    /\ \E src \in RichSources : LoadFile(src)

NextOrder == ScanRich \/ LoadReturn \/ NewValidator \/ CallValidateAll

SpecOrder == Init /\ [][NextOrder]_vars

(***************************************************************************)
(* parse_list_field on a sequence of ids, given as one string and as a     *)
(* native list                                                             *)
(***************************************************************************)
\* ids as the round trip takes them: non-empty, comma-free, no surrounding blank
WellFormedId(id) ==
    /\ id # <<>>
    /\ ~Contains(id, ",")
    /\ ~IsSpace(id[1])
    /\ ~IsSpace(id[Len(id)])

GoodIds == {TId, <<"S", "-", "2">>, <<"a", " ", "b">>, <<"x">>}
BadIds == {<<>>, <<" ", "x">>, <<"a", ",", "b">>}
IdSeqs == UNION {[1..n -> GoodIds \cup BadIds] : n \in 0..MaxIds}

InitParse ==
    /\ vault = <<>>
    /\ entities = <<>>
    /\ duplicates = <<>>
    /\ pc = "parse"
    /\ heap = <<>>
    /\ verrors = 0
    /\ vret = <<>>
    /\ vsnap = <<>>
    /\ vraised = FALSE
    /\ canvas = NoCanvas
    /\ cerrors = 0
    /\ cret = 0
    /\ craised = FALSE
    /\ exitCode = -1
    /\ pids \in IdSeqs
    /\ pstr = <<>>
    /\ plist = <<>>
    /\ pvalue = VNull
    /\ pout = <<>>
    /\ lret = <<>>

ParseJoined ==
    /\ pc = "parse"
    /\ pstr = <<>>
    /\ pstr' = <<parse_list_field(VStr(Join(pids)))>>
    /\ UNCHANGED <<vault, entities, duplicates, lret, pc, validatorVars, canvasVars,
                   exitCode, pids, plist, pvalue, pout>>

ParseNative ==
    /\ pc = "parse"
    /\ plist = <<>>
    /\ plist' = <<parse_list_field(VList([i \in 1..Len(pids) |-> VStr(pids[i])]))>>
    /\ UNCHANGED <<vault, entities, duplicates, lret, pc, validatorVars, canvasVars,
                   exitCode, pids, pstr, pvalue, pout>>

NextParse == ParseJoined \/ ParseNative

SpecParse == InitParse /\ [][NextParse]_vars

(***************************************************************************)
(* parse_list_field on the values a metadata key may hold: nothing, a      *)
(* string, a number, a list, a mapping                                     *)
(***************************************************************************)
ShapeChars == {"a", ",", " "}
ShapeStrings == UNION {[1..n -> ShapeChars] : n \in 0..MaxChars}
ShapeEntries == {VNull, VStr(<<>>), VStr(<<"a">>), VStr(<<"b", ",", "c">>), VInt(0), VInt(7)}
ShapeLists == UNION {[1..n -> ShapeEntries] : n \in 0..MaxIds}
ShapeValues ==
    {VNull, VInt(0), VInt(7), VMap(<<>>), VMap(<< <<"id", VStr(MId)>> >>)}
    \cup {VStr(s) : s \in ShapeStrings}
    \cup {VList(l) : l \in ShapeLists}

InitShapes ==
    /\ vault = <<>>
    /\ entities = <<>>
    /\ duplicates = <<>>
    /\ pc = "parse"
    /\ heap = <<>>
    /\ verrors = 0
    /\ vret = <<>>
    /\ vsnap = <<>>
    /\ vraised = FALSE
    /\ canvas = NoCanvas
    /\ cerrors = 0
    /\ cret = 0
    /\ craised = FALSE
    /\ exitCode = -1
    /\ pids = <<>>
    /\ pstr = <<>>
    /\ plist = <<>>
    /\ pvalue \in ShapeValues
    /\ pout = <<>>
    /\ lret = <<>>

ParseValue ==
    /\ pc = "parse"
    /\ pout = <<>>
    /\ pout' = <<parse_list_field(pvalue)>>
    /\ UNCHANGED <<vault, entities, duplicates, lret, pc, validatorVars, canvasVars,
                   exitCode, pids, pstr, plist, pvalue>>

NextShapes == ParseValue

SpecShapes == InitShapes /\ [][NextShapes]_vars

(***************************************************************************)
(* Reading a state                                                         *)
(***************************************************************************)
\* the calls of validate_all that returned, and the list each returned
ReturnedCalls == {k \in 1..Len(vret) : vret[k] # 0}
Result(k) == heap[vret[k]]

ListOf(r, fld) ==
    CASE fld = "depends_on" -> r.depends_on
      [] fld = "blocked_by" -> r.blocked_by
      [] fld = "implements" -> r.implements
      [] fld = "enables" -> r.enables
      [] OTHER -> r.implemented_by

\* the ids a record refers to through a field (parent, supersedes: the string held)
HeldId(x) == IF x.tag = "str" /\ x.v # <<>> THEN {x.v} ELSE {}
IdsOf(r, fld) ==
    CASE fld = "parent" -> HeldId(r.parent)
      [] fld = "supersedes" -> HeldId(r.supersedes)
      [] OTHER -> {ListOf(r, fld)[i] : i \in 1..Len(ListOf(r, fld))}

ReferenceFields ==
    {"depends_on", "blocked_by", "implements", "enables", "implemented_by",
     "parent", "supersedes"}

TypeOf(id) == Get(entities, id).type

\* what a finding says, read off its message: that an id was not found, that a
\* parent has the wrong type, or that a target has a type the field does not allow
IsExistence(f) == Len(f.message) = 3
IsParentType(f) == Len(f.message) = 5
IsTypeError(f) == Len(f.message) > 5
\* the id an existence or type finding names
Names(f, id) ==
    \/ IsExistence(f) /\ f.message[2] = VStr(id)
    \/ IsTypeError(f) /\ f.message[Len(f.message) - 2] = VStr(id)

(***************************************************************************)
(* Properties                                                              *)
(***************************************************************************)
SeverityFor(fld) == IF fld = "blocked_by" THEN "warning" ELSE "error"

\* C1: in every list validate_all returned, each id that a record refers to through
\* depends_on, blocked_by, implements, enables, implemented_by, parent or supersedes
\* and that is no key of the collection has a finding with the record's id, that
\* field and that id, of severity warning for blocked_by and error for the others.
MissingReferencesReported ==
    \A k \in ReturnedCalls :
        \A i \in 1..Len(entities) :
            \A fld \in ReferenceFields :
                \A x \in IdsOf(entities[i], fld) :
                    ~HasKey(entities, x) =>
                        \E j \in 1..Len(Result(k)) :
                            /\ Result(k)[j].entity_id = entities[i].id
                            /\ Result(k)[j].field = fld
                            /\ Result(k)[j].severity = SeverityFor(fld)
                            /\ IsExistence(Result(k)[j])
                            /\ Result(k)[j].message[2] = VStr(x)

\* a returned list for a collection with a record whose blocked_by names a missing
\* id next to a record that is loaded
MissingBlockerWitness ==
    /\ ReturnedCalls # {}
    /\ Len(entities) = 2
    /\ \E i \in 1..Len(entities) :
          \E x \in IdsOf(entities[i], "blocked_by") : ~HasKey(entities, x)

\* the positions in the scan of the sources that declare id as a record's id
RECURSIVE DiscoveriesFrom(_, _)
DiscoveriesFrom(id, i) ==
    IF i > Len(vault) THEN <<>>
    ELSE (IF vault[i].hasMeta /\ vault[i].id = VStr(id)
             /\ get_entity_type_from_id(id) # "None"
          THEN <<i>> ELSE <<>>)
         \o DiscoveriesFrom(id, i + 1)

Discoveries(id) == DiscoveriesFrom(id, 1)
DeclaredIds == {vault[i].id.v : i \in {j \in 1..Len(vault) : vault[j].id.tag = "str"}}
DiscoveredIds == {id \in DeclaredIds : Discoveries(id) # <<>>}

\* C2: whatever sources the loader has processed, the collection holds one record
\* per discovered id, the first one discovered, and nothing else; the duplicates
\* map has an entry for an id exactly when the id was discovered twice or more,
\* and the entry lists every discovery in order, the winner's first.
FirstWinsAndDuplicatesListed ==
    /\ \A id \in DiscoveredIds :
          /\ Cardinality({i \in 1..Len(entities) : entities[i].id = id}) = 1
          /\ Get(entities, id).file_path = Discoveries(id)[1]
    /\ \A i \in 1..Len(entities) : entities[i].id \in DiscoveredIds
    /\ \A id \in DiscoveredIds :
          /\ HasKey(duplicates, id) <=> Len(Discoveries(id)) >= 2
          /\ Cardinality({i \in 1..Len(duplicates) : duplicates[i].id = id}) <= 1
          /\ HasKey(duplicates, id) => Get(duplicates, id).paths = Discoveries(id)
    /\ \A i \in 1..Len(duplicates) : duplicates[i].id \in DiscoveredIds

\* the scan is over and one id was discovered three times among four sources
ThreeDiscoveriesWitness ==
    /\ pc = "loaded"
    /\ \E id \in DiscoveredIds : Len(Discoveries(id)) = 3 /\ Len(Get(duplicates, id).paths) = 3
    /\ Len(entities) = 1
    /\ Len(vault) = 4

\* the error findings of result k on a field of record r that name id t
ErrorsNaming(k, r, fld, t) ==
    {j \in 1..Len(Result(k)) :
        /\ Result(k)[j].entity_id = r.id
        /\ Result(k)[j].field = fld
        /\ Result(k)[j].severity = "error"
        /\ Names(Result(k)[j], t)}

DependsOnAllowed(type) ==
    CASE type = "milestone" -> {"milestone", "decision"}
      [] type = "story" -> {"story", "decision", "document"}
      [] type = "task" -> {"task", "decision"}
      [] type = "decision" -> {"decision"}
      [] type = "document" -> {"document", "decision"}

\* C3: in every list validate_all returned, a record has an error finding on
\* depends_on for a target that resolves exactly when the target's type is outside
\* the set allowed for the record's own type.
DependsOnTypeChecked ==
    \A k \in ReturnedCalls :
        \A i \in 1..Len(entities) :
            \A t \in IdsOf(entities[i], "depends_on") :
                HasKey(entities, t) =>
                    (ErrorsNaming(k, entities[i], "depends_on", t) # {}
                        <=> TypeOf(t) \notin DependsOnAllowed(entities[i].type))

\* a task that depends on a loaded story, and the error returned for it
TaskDependsOnStoryWitness ==
    /\ ReturnedCalls # {}
    /\ HasKey(entities, TId) /\ HasKey(entities, SId)
    /\ SId \in IdsOf(Get(entities, TId), "depends_on")
    /\ \A k \in ReturnedCalls : ErrorsNaming(k, Get(entities, TId), "depends_on", SId) # {}

RuleApplies(fld, type) ==
    CASE fld = "enables" -> type = "decision"
      [] fld = "implemented_by" -> type = "document"
      [] fld = "implements" -> type \in {"story", "task", "milestone"}

RuleAllows(fld) ==
    CASE fld = "enables" -> {"document", "story", "task"}
      [] fld = "implemented_by" -> {"story", "task"}
      [] fld = "implements" -> {"document"}

\* C4: in every list validate_all returned, a record has an error finding on
\* enables, implemented_by or implements for a target that resolves exactly when
\* the field's rule applies to the record's type and the target's type is outside
\* the allowed set.
LinkRulesChecked ==
    \A k \in ReturnedCalls :
        \A i \in 1..Len(entities) :
            \A fld \in {"enables", "implemented_by", "implements"} :
                \A t \in IdsOf(entities[i], fld) :
                    HasKey(entities, t) =>
                        (ErrorsNaming(k, entities[i], fld, t) # {}
                            <=> /\ RuleApplies(fld, entities[i].type)
                                /\ TypeOf(t) \notin RuleAllows(fld))

\* a decision that enables a loaded milestone, and the error returned for it
DecisionEnablesMilestoneWitness ==
    /\ ReturnedCalls # {}
    /\ HasKey(entities, DecId) /\ HasKey(entities, MId)
    /\ MId \in IdsOf(Get(entities, DecId), "enables")
    /\ \A k \in ReturnedCalls : ErrorsNaming(k, Get(entities, DecId), "enables", MId) # {}

ParentResolves(r) == r.parent.tag = "str" /\ HasKey(entities, r.parent.v)

\* C5: in every list validate_all returned, a story whose parent resolves to a
\* record that is no milestone, and a task whose parent resolves to a record that
\* is no story, have exactly one error finding on parent; a milestone, decision or
\* document whose parent resolves has no parent-type finding.
ParentTypeChecked ==
    \A k \in ReturnedCalls :
        \A i \in 1..Len(entities) :
            LET r == entities[i] IN
            ParentResolves(r) =>
                /\ (\/ r.type = "story" /\ TypeOf(r.parent.v) # "milestone"
                    \/ r.type = "task" /\ TypeOf(r.parent.v) # "story")
                   => Cardinality({j \in 1..Len(Result(k)) :
                                      /\ Result(k)[j].entity_id = r.id
                                      /\ Result(k)[j].field = "parent"
                                      /\ Result(k)[j].severity = "error"}) = 1
                /\ r.type \in {"milestone", "decision", "document"}
                   => \A j \in 1..Len(Result(k)) :
                          ~(Result(k)[j].entity_id = r.id /\ IsParentType(Result(k)[j]))

\* a task whose parent comes from the legacy milestone key and resolves to a
\* milestone, and the parent-type error returned for it
LegacyParentWitness ==
    /\ ReturnedCalls # {}
    /\ HasKey(entities, TId) /\ HasKey(entities, MId)
    /\ vault[Get(entities, TId).file_path].parent = VNull
    /\ vault[Get(entities, TId).file_path].milestone = VStr(MId)
    /\ \A k \in ReturnedCalls :
          \E j \in 1..Len(Result(k)) :
              Result(k)[j].entity_id = TId /\ IsParentType(Result(k)[j])

\* C8: when two calls in a row of validate_all on one validator both return, the
\* second list equals, element by element and in order, what the first call
\* returned, and the list the first call returned still holds what it held then.
RepeatedValidationSame ==
    \A k \in 1..(Len(vret) - 1) :
        (vret[k] # 0 /\ vret[k + 1] # 0) =>
            /\ heap[vret[k + 1]] = vsnap[k]
            /\ heap[vret[k]] = vsnap[k]

\* two calls returned, with findings in the lists
TwoCallsWitness ==
    /\ Len(vret) >= 2
    /\ vret[1] # 0 /\ vret[2] # 0
    /\ Len(heap[vret[1]]) >= 2
    /\ Len(heap[vret[2]]) >= 2

\* C9: for ids that are non-empty, comma-free and without a blank at either end,
\* parse_list_field of the ids joined by ", " returns the same sequence as
\* parse_list_field of the native list of the ids.
JoinedParsesAsNative ==
    (/\ \A i \in 1..Len(pids) : WellFormedId(pids[i])
     /\ pstr # <<>>
     /\ plist # <<>>)
    => pstr[1] = plist[1]

\* three ids, one with a blank inside, parsed both ways into three ids
ThreeIdsParsedWitness ==
    /\ Len(pids) = 3
    /\ \A i \in 1..Len(pids) : WellFormedId(pids[i])
    /\ \E i \in 1..Len(pids) : Contains(pids[i], " ")
    /\ pstr # <<>> /\ plist # <<>>
    /\ Len(pstr[1]) = 3 /\ Len(plist[1]) = 3

\* the collection the loader builds from the first n sources of the scan
RECURSIVE LoadedFrom(_)
LoadedFrom(n) ==
    IF n = 0 THEN [entities |-> <<>>, duplicates |-> <<>>]
    ELSE LET before == LoadedFrom(n - 1)
         IN LoadInto(before.entities, before.duplicates, vault[n], n)

\* C10: when the canvas file cannot be opened or parsed, CanvasValidator.validate
\* returns one finding, for 'canvas' and of severity error, and nothing from a node
\* or an edge; the list validate_all returned holds what it held, and the
\* collection is the one the loader built.
CanvasFailureIsOneError ==
    canvas.tag = "unreadable" =>
        /\ ~craised
        /\ cret # 0
        /\ Len(heap[cret]) = 1
        /\ heap[cret][1].entity_id = CanvasId
        /\ heap[cret][1].severity = "error"
        /\ cret # vret[1]
        /\ heap[vret[1]] = vsnap[1]
        /\ entities = LoadedFrom(Len(vault)).entities

\* the canvas failed to load after validate_all had returned findings
CanvasFailureWitness ==
    /\ canvas.tag = "unreadable"
    /\ pc = "done"
    /\ Len(entities) = 2
    /\ Len(heap[vret[1]]) >= 2

\* how often a record holds id x in a field (parent and supersedes hold one value)
Occurrences(r, fld, x) ==
    IF fld \in {"parent", "supersedes"} THEN 1
    ELSE Cardinality({i \in 1..Len(ListOf(r, fld)) : ListOf(r, fld)[i] = x})

\* the findings of result k on a field of record r
FindingsOn(k, r, fld) ==
    {j \in 1..Len(Result(k)) :
        Result(k)[j].entity_id = r.id /\ Result(k)[j].field = fld}

\* C11: in every list validate_all returned, an id that a record holds in a list
\* field, parent or supersedes and that is no key of the collection has as many
\* existence findings on that field as the field holds it, and no type finding on
\* that field names it; a record whose parent is such an id has exactly one finding
\* on parent, an existence finding of severity error, and so no parent-type
\* finding; an id that is a key of the collection has no existence finding.
MissingReferenceOnceEach ==
    \A k \in ReturnedCalls :
        \A i \in 1..Len(entities) :
            LET r == entities[i] IN
            /\ \A fld \in ReferenceFields :
                  \A x \in IdsOf(r, fld) :
                      LET ex == {j \in FindingsOn(k, r, fld) :
                                    /\ IsExistence(Result(k)[j])
                                    /\ Result(k)[j].message[2] = VStr(x)}
                      IN IF HasKey(entities, x) THEN ex = {}
                         ELSE /\ Cardinality(ex) = Occurrences(r, fld, x)
                              /\ \A j \in FindingsOn(k, r, fld) :
                                    ~(IsTypeError(Result(k)[j]) /\ Names(Result(k)[j], x))
            /\ \A x \in IdsOf(r, "parent") :
                  ~HasKey(entities, x) =>
                      /\ Cardinality(FindingsOn(k, r, "parent")) = 1
                      /\ \A j \in FindingsOn(k, r, "parent") :
                            /\ IsExistence(Result(k)[j])
                            /\ Result(k)[j].severity = "error"

\* a story whose parent names a milestone that is not loaded, and the list returned
\* for it: one finding, on parent
MissingParentWitness ==
    /\ ReturnedCalls # {}
    /\ HasKey(entities, SId) /\ ~HasKey(entities, MId)
    /\ Get(entities, SId).parent = VStr(MId)
    /\ \A k \in ReturnedCalls :
          /\ Len(Result(k)) = 1
          /\ Result(k)[1].field = "parent"
          /\ Result(k)[1].entity_id = SId

\* where a record stands in the collection's iteration order
PositionOf(id) == CHOOSE i \in 1..Len(entities) : entities[i].id = id

ExistenceOrder ==
    <<"depends_on", "blocked_by", "implements", "enables", "implemented_by",
      "parent", "supersedes">>
TypeOrder == <<"enables", "implemented_by", "implements", "depends_on">>

\* the place of a finding in the check order the claim gives
Rank(f) ==
    IF IsExistence(f)
    THEN CHOOSE n \in 1..Len(ExistenceOrder) : ExistenceOrder[n] = f.field
    ELSE IF IsTypeError(f)
    THEN Len(ExistenceOrder) + (CHOOSE n \in 1..Len(TypeOrder) : TypeOrder[n] = f.field)
    ELSE Len(ExistenceOrder) + Len(TypeOrder) + 1

\* the ids named, in order, by the existence findings (or by the type findings) of
\* result k on a list field of record r
NamedIn(k, r, fld, existence) ==
    LET sel == SelectSeq(Result(k),
                         LAMBDA f : /\ f.entity_id = r.id
                                    /\ f.field = fld
                                    /\ IF existence THEN IsExistence(f) ELSE IsTypeError(f))
    IN [n \in 1..Len(sel) |->
           IF existence THEN sel[n].message[2].v
           ELSE sel[n].message[Len(sel[n].message) - 2].v]

\* C12: in every list validate_all returned, the findings of a record that comes
\* earlier in the collection precede those of a later record; the findings of one
\* record come in the check order (existence findings for depends_on, blocked_by,
\* implements, enables, implemented_by, parent, supersedes, then type findings for
\* enables, implemented_by, implements, depends_on, then the parent-type finding);
\* and the ids that the existence findings, or the type findings, of a record name
\* on a list field are the ids of that field that are named at all, in the
\* field's order and as often as the field holds them.
FindingsInCheckOrder ==
    \A k \in ReturnedCalls :
        /\ \A j1, j2 \in 1..Len(Result(k)) :
              j1 < j2 =>
                  /\ PositionOf(Result(k)[j1].entity_id) <= PositionOf(Result(k)[j2].entity_id)
                  /\ Result(k)[j1].entity_id = Result(k)[j2].entity_id
                     => Rank(Result(k)[j1]) <= Rank(Result(k)[j2])
        /\ \A i \in 1..Len(entities) :
              \A n \in 1..Len(ListFields) :
                  \A existence \in BOOLEAN :
                      LET named == NamedIn(k, entities[i], ListFields[n], existence)
                      IN named = SelectSeq(ListOf(entities[i], ListFields[n]),
                                           LAMBDA x : \E q \in 1..Len(named) : named[q] = x)

\* a returned list with findings of two records, a type finding and a parent-type
\* finding among them, and two existence findings for an id a field holds twice
TwoRecordsWitness ==
    \E k \in ReturnedCalls :
        /\ \E j1, j2 \in 1..Len(Result(k)) :
              Result(k)[j1].entity_id # Result(k)[j2].entity_id
        /\ \E j \in 1..Len(Result(k)) : IsTypeError(Result(k)[j])
        /\ \E j \in 1..Len(Result(k)) : IsParentType(Result(k)[j])
        /\ \E i \in 1..Len(entities) :
              \E x \in IdsOf(entities[i], "enables") :
                  /\ ~HasKey(entities, x)
                  /\ Occurrences(entities[i], "enables", x) = 2
                  /\ Len(NamedIn(k, entities[i], "enables", TRUE)) >= 2

\* whether the rule of a list field lets record r refer to the loaded record t
TargetAllowed(r, fld, t) ==
    CASE fld = "depends_on" -> TypeOf(t) \in DependsOnAllowed(r.type)
      [] fld = "blocked_by" -> TRUE
      [] OTHER -> RuleApplies(fld, r.type) => TypeOf(t) \in RuleAllows(fld)

\* the places of a list field that hold a violation: an id that is no key of the
\* collection, or a target of a type the field's rule forbids
ListViolations(r, fld) ==
    {i \in 1..Len(ListOf(r, fld)) :
        \/ ~HasKey(entities, ListOf(r, fld)[i])
        \/ ~TargetAllowed(r, fld, ListOf(r, fld)[i])}

ParentViolated(r) ==
    /\ Truthy(r.parent)
    /\ \/ ~InEntities(entities, r.parent)
       \/ r.type = "story" /\ TypeOf(r.parent.v) # "milestone"
       \/ r.type = "task" /\ TypeOf(r.parent.v) # "story"

SupersedesViolated(r) == Truthy(r.supersedes) /\ ~InEntities(entities, r.supersedes)

\* the relationship fields of a record that contain a violation
ViolatedFields(r) ==
    {ListFields[n] : n \in {q \in 1..Len(ListFields) : ListViolations(r, ListFields[q]) # {}}}
    \cup (IF ParentViolated(r) THEN {"parent"} ELSE {})
    \cup (IF SupersedesViolated(r) THEN {"supersedes"} ELSE {})

\* the violations of a record, each place of a list field counted
ViolationCount(r) ==
    Cardinality(ListViolations(r, "depends_on"))
    + Cardinality(ListViolations(r, "blocked_by"))
    + Cardinality(ListViolations(r, "implements"))
    + Cardinality(ListViolations(r, "enables"))
    + Cardinality(ListViolations(r, "implemented_by"))
    + (IF ParentViolated(r) THEN 1 ELSE 0)
    + (IF SupersedesViolated(r) THEN 1 ELSE 0)

\* the findings of result k that carry the id of record r
FindingsFor(k, r) == {j \in 1..Len(Result(k)) : Result(k)[j].entity_id = r.id}

\* C13 as stated: in every list validate_all returned, a record has as many
\* findings as it has relationship fields that contain a violation.
FindingsEqualViolatedFields ==
    \A k \in ReturnedCalls :
        \A i \in 1..Len(entities) :
            Cardinality(FindingsFor(k, entities[i]))
                = Cardinality(ViolatedFields(entities[i]))

\* C13, amended: in every list validate_all returned, a record has as many findings
\* as it has violations, a list field counting once for each place that holds a
\* missing id or a target of a forbidden type, parent and supersedes once; so it
\* has at least as many findings as fields that contain a violation.
FindingsEqualViolations ==
    \A k \in ReturnedCalls :
        \A i \in 1..Len(entities) :
            /\ Cardinality(FindingsFor(k, entities[i])) = ViolationCount(entities[i])
            /\ Cardinality(FindingsFor(k, entities[i]))
                   >= Cardinality(ViolatedFields(entities[i]))

\* a returned list for a record whose seven relationship fields all contain a
\* violation, two of the list fields at more than one place
AllFieldsViolatedWitness ==
    \E k \in ReturnedCalls :
        \E i \in 1..Len(entities) :
            /\ ViolatedFields(entities[i]) = ReferenceFields
            /\ Cardinality(ListViolations(entities[i], "implements")) = 3
            /\ Cardinality(ListViolations(entities[i], "blocked_by")) = 1
            /\ Cardinality(FindingsFor(k, entities[i])) > Cardinality(ReferenceFields)

\* the sequence the claim gives for a value: nothing for a missing or empty value,
\* the entries that are not falsy for a list, the trimmed non-empty parts for a
\* string with a comma, the value itself for any other single value
Stated(value) ==
    IF ~Truthy(value) THEN <<>>
    ELSE CASE value.tag = "list" ->
                LET kept == SelectSeq(value.v, LAMBDA x : Truthy(x))
                IN [i \in 1..Len(kept) |-> ToStr(kept[i])]
           [] value.tag = "str" /\ Contains(value.v, ",") ->
                LET parts == Split(value.v)
                IN SelectSeq([i \in 1..Len(parts) |-> Strip(parts[i])],
                             LAMBDA s : s # <<>>)
           [] OTHER -> <<ToStr(value)>>

\* C14: parse_list_field maps a list to its entries that are not falsy, a single
\* value (a string without a comma, a number) to a sequence of one element holding
\* it, a string with commas to its trimmed non-empty parts, and a missing or empty
\* value to the empty sequence.
ParsesEveryShapeAsStated ==
    (pout # <<>> /\ pvalue.tag # "map") => pout[1] = Stated(pvalue)

\* what holds of the code: the same, numbers apart
ParsesStringsAndListsAsStated ==
    (pout # <<>> /\ pvalue.tag \notin {"map", "int"}) => pout[1] = Stated(pvalue)

\* C15: a call of load after the first, on the same loader and the same vault,
\* leaves the collection and the duplicates map as the call before left them, and
\* an id discovered once in the vault has no entry in the duplicates map.
SecondLoadSame ==
    \A k \in 2..Len(lret) :
        /\ lret[k].entities = lret[k - 1].entities
        /\ lret[k].duplicates = lret[k - 1].duplicates
        /\ \A id \in DiscoveredIds :
              Len(Discoveries(id)) = 1 => ~HasKey(lret[k].duplicates, id)

\* what holds of the code: the collection is the same after every call
SecondLoadSameCollection ==
    \A k \in 2..Len(lret) : lret[k].entities = lret[k - 1].entities

\* the findings of a run: those validate_all returned and those the canvas checker returned
RunFindings ==
    (IF vret # <<>> /\ vret[1] # 0 THEN heap[vret[1]] ELSE <<>>)
    \o (IF cret # 0 THEN heap[cret] ELSE <<>>)

\* C6: a run of main that reaches its summary fails (non-zero status) exactly when
\* a finding of severity error is among the findings of the run, those of the
\* canvas checker included.
ExitStatusReflectsEveryError ==
    pc = "done" =>
        (exitCode # 0 <=> \E j \in 1..Len(RunFindings) : RunFindings[j].severity = "error")

\* C7: neither validate_all nor CanvasValidator.validate raises.
ValidatorsNeverRaise == ~vraised /\ ~craised

====
